---- MODULE Spec2Model ----
(***************************************************************************)
(* Language weirdness calculator (src/calculate_weirdness.py).             *)
(*                                                                         *)
(* calculate_feature_rarity_scores builds, per feature column, the rarity  *)
(* of every observed value; calculate_weirdness_scores averages, per       *)
(* language, the rarities of its own values; main drops the unscored       *)
(* languages, keeps the robust subset and ranks it.                        *)
(*                                                                         *)
(* Numbers: a rarity or a score is a Python float obtained from integer    *)
(* counts.  It is modelled by the rational it stands for, as a reduced     *)
(* fraction <<numerator, denominator>>, so that two rarities are equal     *)
(* exactly when the rationals are (1 - 2/4 and 1 - 1/2 are the same value) *)
(* and the order is the order of the rationals.                            *)
(*                                                                         *)
(* A missing cell (NaN / None in the data frame) is the marker NA.         *)
(* A feature identifier is its position in feature_cols; a language's      *)
(* name is the position of its row in the data frame.                      *)
(***************************************************************************)
EXTENDS Integers, Sequences, FiniteSets, TLC

VARIABLES
    pc,                    \* position in main / in the function being run
    df,                    \* the data frame: a sequence of rows
    feature_cols,          \* main: the feature columns, in column order
    rarity_scores,         \* feature -> (value -> rarity)
    feature_stats,         \* feature -> statistics record
    weirdness_data,        \* what calculate_weirdness_scores returns
    weirdness_df,          \* main: the frame after the notna filter
    weirdness_df_robust,   \* main: the robust subset
    top_10,                \* main: nlargest(10, 'weirdness_score')
    bottom_10,             \* main: nsmallest(10, 'weirdness_score')
    feature,               \* aggregator loop: index of the feature being read
    value,                 \* aggregator loop: row[feature]
    language_rarities,     \* aggregator loop: rarities collected so far
    feature_contributions  \* aggregator loop: contribution records so far

vars == <<pc, df, feature_cols, rarity_scores, feature_stats, weirdness_data, weirdness_df,
          weirdness_df_robust, top_10, bottom_10, feature, value,
          language_rarities, feature_contributions>>

----------------------------------------------------------------------------
(* Bounds of the model *)

\* largest number of feature cells (languages times features) of a data frame
MaxCells == 7
\* number of feature columns of the single row scored against an arbitrary table
MaxCols == 6
\* largest number of records of a scored frame handed to the ranking
MaxRecs == 11
\* largest number of records of that frame below the MIN_FEATURES threshold
MaxSparse == 1

\* the categorical labels a cell can hold
Values == {"A", "B"}
\* the missing-value marker (NaN)
NA == "NA"
\* Python's None
None == "None"
\* the outcome of subscripting a dict with a key it does not hold
KeyError == "KeyError"

----------------------------------------------------------------------------
(* Numbers *)

RECURSIVE GCD(_, _)
GCD(a, b) == IF b = 0 THEN a ELSE GCD(b, a % b)

\* the rational n/d (d > 0), reduced
Frac(n, d) == LET g == GCD(n, d) IN <<n \div g, d \div g>>

Zero == <<0, 1>>
One == <<1, 1>>

FracLess(x, y) == x[1] * y[2] < y[1] * x[2]
FracLeq(x, y) == x[1] * y[2] <= y[1] * x[2]
FracAdd(x, y) == Frac(x[1] * y[2] + y[1] * x[2], x[2] * y[2])
FracSub(x, y) == Frac(x[1] * y[2] - y[1] * x[2], x[2] * y[2])

RECURSIVE FracSum(_)
FracSum(s) == IF s = <<>> THEN Zero ELSE FracAdd(FracSum(Tail(s)), Head(s))

Min(a, b) == IF a <= b THEN a ELSE b

----------------------------------------------------------------------------
(* The data frame *)

\* df.columns[10:].tolist(): the feature columns, in column order
FeatureColumns(d) == [i \in 1..Len(d[1]) |-> i]

\* a row of n feature cells
Rows(n) == [1..n -> Values \cup {NA}]

\* df[feature]: one column, in row order
Column(d, f) == [k \in 1..Len(d) |-> d[k][f]]

\* Series.dropna(): the non-missing cells, in row order
dropna(col) == SelectSeq(col, LAMBDA v : v # NA)

----------------------------------------------------------------------------
(* calculate_feature_rarity_scores *)

\* Counter(values): <<value, count>> pairs in the order the values were first
\* met (a Counter is a dict, which keeps insertion order)
RECURSIVE Counter(_)
Counter(values) ==
    IF values = <<>> THEN <<>>
    ELSE LET n == Len(values)
             prev == Counter(SubSeq(values, 1, n - 1))
             v == values[n]
             at == {i \in 1..Len(prev) : prev[i][1] = v}
         IN IF at = {} THEN Append(prev, <<v, 1>>)
            ELSE [i \in 1..Len(prev) |->
                    IF i \in at THEN <<v, prev[i][2] + 1>> ELSE prev[i]]

\* Rarity without the complement: the frequency itself
Rarity_AsFrequency(count, total) == Frac(count, total)

\* rarity = 1 - count / total
Rarity(count, total) == FracSub(One, Frac(count, total))

\* FeatureRarity dividing by the number of distinct values, not of observations
FeatureRarity_ByUnique(value_counts, total) ==
    [v \in {value_counts[i][1] : i \in 1..Len(value_counts)} |->
        LET i == CHOOSE j \in 1..Len(value_counts) : value_counts[j][1] = v
        IN Rarity(value_counts[i][2], Len(value_counts))]

\* the inner loop: feature_rarity[value] = rarity for every counted value
FeatureRarity(value_counts, total) ==
    [v \in {value_counts[i][1] : i \in 1..Len(value_counts)} |->
        LET i == CHOOSE j \in 1..Len(value_counts) : value_counts[j][1] = v
        IN Rarity(value_counts[i][2], total)]

\* MostCommon keeping the last item that reaches the maximum
MostCommon_LastMax(value_counts) ==
    LET best == CHOOSE i \in 1..Len(value_counts) :
                    /\ \A j \in 1..Len(value_counts) :
                          value_counts[j][2] <= value_counts[i][2]
                    /\ \A j \in (i + 1)..Len(value_counts) :
                          value_counts[j][2] < value_counts[i][2]
    IN value_counts[best]

\* value_counts.most_common(1)[0]: max() over the items by count, which
\* returns the first item, in iteration order, that reaches the maximum
MostCommon(value_counts) ==
    LET best == CHOOSE i \in 1..Len(value_counts) :
                    /\ \A j \in 1..Len(value_counts) :
                          value_counts[j][2] <= value_counts[i][2]
                    /\ \A j \in 1..(i - 1) :
                          value_counts[j][2] < value_counts[i][2]
    IN value_counts[best]

\* Observed without the skip of the columns that hold no value
Observed_NoSkip(d, cols) == {cols[i] : i \in 1..Len(cols)}

\* the features the loop does not skip (len(values) == 0: continue)
Observed(d, cols) ==
    {cols[i] : i \in {j \in 1..Len(cols) : Len(dropna(Column(d, cols[j]))) # 0}}

\* the rarity_scores dict the function returns
RarityScores(d, cols) ==
    [f \in Observed(d, cols) |->
        LET values == dropna(Column(d, f))
        IN FeatureRarity(Counter(values), Len(values))]

\* the feature_stats dict the function returns
FeatureStats(d, cols) ==
    [f \in Observed(d, cols) |->
        LET values == dropna(Column(d, f))
            value_counts == Counter(values)
        IN [total_responses |-> Len(values),
            unique_values |-> Len(value_counts),
            most_common |-> IF value_counts # <<>>
                            THEN MostCommon(value_counts) ELSE None]]

----------------------------------------------------------------------------
(* calculate_weirdness_scores *)

\* number of contributions stored on a record: feature_contributions[:5]
TopK == 5

\* dict[key]: the entry, or KeyError when the dict does not hold the key
Lookup(map, key) == IF key \in DOMAIN map THEN map[key] ELSE KeyError

\* ScoreFeature without the test that the rarity map holds the value
ScoreFeature_NoValueCheck(acc, f, v, rs) ==
    IF v = NA \/ f \notin DOMAIN rs THEN acc
    ELSE LET rarity == Lookup(Lookup(rs, f), v)
         IN [rar |-> Append(acc.rar, rarity),
             contrib |-> Append(acc.contrib,
                 [feature |-> f, value |-> v, rarity |-> rarity])]

\* one iteration of "for feature in feature_cols" on the lists collected so
\* far: acc = [rar |-> language_rarities, contrib |-> feature_contributions]
ScoreFeature(acc, f, v, rs) ==
    IF v = NA \/ f \notin DOMAIN rs THEN acc
    ELSE IF v \in DOMAIN rs[f]
         THEN LET rarity == Lookup(Lookup(rs, f), v)
              IN [rar |-> Append(acc.rar, rarity),
                  contrib |-> Append(acc.contrib,
                      [feature |-> f, value |-> v, rarity |-> rarity])]
         ELSE acc

\* the whole loop over cols[1..n] for one row
RECURSIVE ScoreRow(_, _, _, _)
ScoreRow(row, cols, rs, n) ==
    IF n = 0 THEN [rar |-> <<>>, contrib |-> <<>>]
    ELSE ScoreFeature(ScoreRow(row, cols, rs, n - 1), cols[n], row[cols[n]], rs)

\* a subscript raised KeyError while the lists were collected
Raised(acc) == \E i \in 1..Len(acc.rar) : acc.rar[i] = KeyError

\* the order a stable sort puts the keys in (list.sort and a mergesort
\* argsort are stable; with reverse = TRUE the order is descending and equal
\* keys still keep their original order): the sequence of the indices of keys
RECURSIVE StableOrder(_, _)
StableOrder(keys, reverse) ==
    IF keys = <<>> THEN <<>>
    ELSE LET n == Len(keys)
             prev == StableOrder(SubSeq(keys, 1, n - 1), reverse)
             notAfter == {i \in 1..Len(prev) :
                            IF reverse THEN FracLeq(keys[n], keys[prev[i]])
                                       ELSE FracLeq(keys[prev[i]], keys[n])}
             k == Cardinality(notAfter)
         IN SubSeq(prev, 1, k) \o <<n>> \o SubSeq(prev, k + 1, Len(prev))

\* SortContributions as an ascending sort read backwards, which turns the
\* contributions of equal rarity around
SortContributions_ReversedAscending(contrib) ==
    LET n == Len(contrib)
        order == StableOrder([i \in 1..n |-> contrib[i].rarity], FALSE)
    IN [i \in 1..n |-> contrib[order[n + 1 - i]]]

\* feature_contributions.sort(key=lambda x: x['rarity'], reverse=True)
SortContributions(contrib) ==
    LET order == StableOrder([i \in 1..Len(contrib) |-> contrib[i].rarity], TRUE)
    IN [i \in 1..Len(contrib) |-> contrib[order[i]]]

\* Mean without the division by the number of rarities
Mean_Sum(rar) == FracSum(rar)

\* np.mean(language_rarities)
Mean(rar) == LET s == FracSum(rar) IN Frac(s[1], s[2] * Len(rar))

\* s[:n]
Take(s, n) == SubSeq(s, 1, Min(n, Len(s)))

\* the dict appended to weirdness_data for one language (the metadata fields
\* wals_code, latitude, ... are copied from the row and read by no claim)
MakeRecord(language_name, rar, contrib) ==
    [name |-> language_name,
     weirdness_score |-> IF rar # <<>> THEN Mean(rar) ELSE None,
     num_features |-> IF rar # <<>> THEN Len(rar) ELSE 0,
     top_weird_features |-> Take(SortContributions(contrib), TopK)]

\* the frame the function returns: one record per row, in row order
WeirdnessScores(d, cols, rs) ==
    [k \in 1..Len(d) |->
        LET acc == ScoreRow(d[k], cols, rs, Len(cols))
        IN MakeRecord(k, acc.rar, acc.contrib)]

----------------------------------------------------------------------------
(* main *)

\* MIN_FEATURES = 30
MIN_FEATURES == 30
\* the n of nlargest(10, ...) and nsmallest(10, ...)
TopN == 10

\* NotNa keeping every record
NotNa_KeepAll(frame) == frame

\* weirdness_df[weirdness_df['weirdness_score'].notna()]
NotNa(frame) == SelectSeq(frame, LAMBDA r : r.weirdness_score # None)

\* AtLeast with a strict comparison
AtLeast_Strict(frame, m) == SelectSeq(frame, LAMBDA r : r.num_features > m)

\* weirdness_df[weirdness_df['num_features'] >= m]
AtLeast(frame, m) == SelectSeq(frame, LAMBDA r : r.num_features >= m)

\* nlargest keeping the last occurrences of equal scores
nlargest_KeepLast(frame, n) ==
    LET len == Len(frame)
        order == StableOrder([i \in 1..len |-> frame[i].weirdness_score], FALSE)
    IN SubSeq([i \in 1..len |-> frame[order[len + 1 - i]]], 1,
              IF n <= len THEN n ELSE len)

\* frame.nlargest(n, 'weirdness_score'), keep = 'first': the first n rows of
\* the frame ordered by the column descending, the first occurrences kept
nlargest(frame, n) ==
    LET order == StableOrder([i \in 1..Len(frame) |-> frame[i].weirdness_score], TRUE)
    IN Take([i \in 1..Len(frame) |-> frame[order[i]]], n)

\* frame.nsmallest(n, 'weirdness_score'), keep = 'first'
nsmallest(frame, n) ==
    LET order == StableOrder([i \in 1..Len(frame) |-> frame[i].weirdness_score], FALSE)
    IN Take([i \in 1..Len(frame) |-> frame[order[i]]], n)

\* the data frames main can load: at least one language and one feature
DataFrames ==
    UNION {[1..L -> Rows(F)] :
             <<L, F>> \in {s \in (1..MaxCells) \X (1..MaxCells) :
                              s[1] * s[2] <= MaxCells}}

Init ==
    /\ pc = "start"
    /\ df \in DataFrames
    /\ feature_cols = FeatureColumns(df)
    /\ rarity_scores = <<>>
    /\ feature_stats = <<>>
    /\ weirdness_data = <<>>
    /\ weirdness_df = <<>>
    /\ weirdness_df_robust = <<>>
    /\ top_10 = <<>>
    /\ bottom_10 = <<>>
    /\ feature = 0
    /\ value = NA
    /\ language_rarities = <<>>
    /\ feature_contributions = <<>>

\* rarity_scores, feature_stats = calculate_feature_rarity_scores(df, feature_cols)
Estimate ==
    /\ pc = "start"
    /\ rarity_scores' = RarityScores(df, feature_cols)
    /\ feature_stats' = FeatureStats(df, feature_cols)
    /\ pc' = "estimated"
    /\ UNCHANGED <<df, feature_cols, weirdness_data, weirdness_df, weirdness_df_robust, top_10,
                   bottom_10, feature, value, language_rarities,
                   feature_contributions>>

\* weirdness_df = calculate_weirdness_scores(df, feature_cols, rarity_scores)
Aggregate ==
    /\ pc = "estimated"
    /\ IF \E k \in 1..Len(df) :
            Raised(ScoreRow(df[k], feature_cols, rarity_scores, Len(feature_cols)))
       THEN /\ pc' = "error"
            /\ UNCHANGED weirdness_data
       ELSE /\ pc' = "aggregated"
            /\ weirdness_data' =
                   WeirdnessScores(df, feature_cols, rarity_scores)
    /\ UNCHANGED <<df, feature_cols, rarity_scores, feature_stats, weirdness_df,
                   weirdness_df_robust, top_10, bottom_10, feature, value,
                   language_rarities, feature_contributions>>

\* weirdness_df = weirdness_df[weirdness_df['weirdness_score'].notna()]
RemoveUnscored ==
    /\ pc = "aggregated"
    /\ weirdness_df' = NotNa(weirdness_data)
    /\ pc' = "scored"
    /\ UNCHANGED <<df, feature_cols, rarity_scores, feature_stats, weirdness_data,
                   weirdness_df_robust, top_10, bottom_10, feature, value,
                   language_rarities, feature_contributions>>

\* weirdness_df_robust = weirdness_df[weirdness_df['num_features'] >= MIN_FEATURES]
RobustFilter ==
    /\ pc = "scored"
    /\ weirdness_df_robust' = AtLeast(weirdness_df, MIN_FEATURES)
    /\ pc' = "robust"
    /\ UNCHANGED <<df, feature_cols, rarity_scores, feature_stats, weirdness_data, weirdness_df,
                   top_10, bottom_10, feature, value, language_rarities,
                   feature_contributions>>

\* top_10 = weirdness_df_robust.nlargest(10, 'weirdness_score')
Top10 ==
    /\ pc = "robust"
    /\ top_10' = nlargest(weirdness_df_robust, TopN)
    /\ pc' = "top"
    /\ UNCHANGED <<df, feature_cols, rarity_scores, feature_stats, weirdness_data, weirdness_df,
                   weirdness_df_robust, bottom_10, feature, value,
                   language_rarities, feature_contributions>>

\* bottom_10 = weirdness_df_robust.nsmallest(10, 'weirdness_score')
Bottom10 ==
    /\ pc = "top"
    /\ bottom_10' = nsmallest(weirdness_df_robust, TopN)
    /\ pc' = "done"
    /\ UNCHANGED <<df, feature_cols, rarity_scores, feature_stats, weirdness_data, weirdness_df,
                   weirdness_df_robust, top_10, feature, value, language_rarities,
                   feature_contributions>>

Next ==
    \/ Estimate
    \/ Aggregate
    \/ RemoveUnscored
    \/ RobustFilter
    \/ Top10
    \/ Bottom10

\* main on every data frame of at most MaxCells feature cells
Spec == Init /\ [][Next]_vars

----------------------------------------------------------------------------
(* calculate_weirdness_scores called on one row with an arbitrary rarity   *)
(* table, one loop iteration per step.  The iteration for a feature reads  *)
(* the row's cell and the table's entry for that feature and nothing else  *)
(* of either, so each step draws the two: value is the cell, rarity_scores *)
(* holds the part of the table the iteration looks at.                     *)

\* the rarities an arbitrary table may hold
RarityChoices == {Frac(1, 5), Frac(4, 5)}

\* what a table can say about feature f: nothing, or a map from some of the
\* values to rarities
TableEntries(f) ==
    {<<>>} \cup {f :> m : m \in UNION {[D -> RarityChoices] : D \in SUBSET Values}}

InitAgg ==
    /\ pc = "loop"
    /\ df = <<>>
    /\ feature_cols = [i \in 1..MaxCols |-> i]
    /\ rarity_scores = <<>>
    /\ feature_stats = <<>>
    /\ weirdness_data = <<>>
    /\ weirdness_df = <<>>
    /\ weirdness_df_robust = <<>>
    /\ top_10 = <<>>
    /\ bottom_10 = <<>>
    /\ feature = 0
    /\ value = NA
    /\ language_rarities = <<>>
    /\ feature_contributions = <<>>

\* one iteration of "for feature in feature_cols"
ReadFeature ==
    /\ pc = "loop"
    /\ feature < Len(feature_cols)
    /\ \E v \in Values \cup {NA}, rs \in TableEntries(feature_cols[feature + 1]) :
          LET acc == ScoreFeature([rar |-> language_rarities,
                                   contrib |-> feature_contributions],
                                  feature_cols[feature + 1], v, rs)
          IN /\ value' = v
             /\ rarity_scores' = rs
             /\ IF Raised(acc)
                THEN /\ pc' = "error"
                     /\ UNCHANGED <<language_rarities, feature_contributions>>
                ELSE /\ pc' = "loop"
                     /\ language_rarities' = acc.rar
                     /\ feature_contributions' = acc.contrib
    /\ feature' = feature + 1
    /\ UNCHANGED <<df, feature_cols, feature_stats, weirdness_data, weirdness_df,
                   weirdness_df_robust, top_10, bottom_10>>

\* after the loop: the score, the in-place sort and the record
FinishRow ==
    /\ pc = "loop"
    /\ feature = Len(feature_cols)
    /\ weirdness_data' =
           <<MakeRecord(1, language_rarities, feature_contributions)>>
    /\ feature_contributions' = SortContributions(feature_contributions)
    /\ pc' = "returned"
    /\ UNCHANGED <<df, feature_cols, rarity_scores, feature_stats, weirdness_df,
                   weirdness_df_robust, top_10, bottom_10, feature, value,
                   language_rarities>>

NextAgg ==
    \/ ReadFeature
    \/ FinishRow

SpecAgg == InitAgg /\ [][NextAgg]_vars

----------------------------------------------------------------------------
(* The ranking part of main on an arbitrary scored frame: the rows of      *)
(* weirdness_df after the notna filter, with the columns the ranking       *)
(* reads.  A name is the row's position in the frame.                      *)

\* the scores and feature counts of the rows of a scored frame
ScoredRows ==
    {[weirdness_score |-> Frac(1, 4), num_features |-> MIN_FEATURES],
     [weirdness_score |-> Frac(3, 4), num_features |-> MIN_FEATURES],
     [weirdness_score |-> Frac(1, 2), num_features |-> MIN_FEATURES - 1]}

\* the frame whose i-th row is named i and has the score and count of rows[i]
ScoredFrame(rows) ==
    [i \in 1..Len(rows) |-> [name |-> i,
                             weirdness_score |-> rows[i].weirdness_score,
                             num_features |-> rows[i].num_features]]

InitRank ==
    /\ pc = "scored"
    /\ \E n \in 0..MaxRecs : \E rows \in [1..n -> ScoredRows] :
          /\ Cardinality({i \in 1..n : rows[i].num_features < MIN_FEATURES})
                 <= MaxSparse
          /\ weirdness_df = ScoredFrame(rows)
    /\ df = <<>>
    /\ feature_cols = <<>>
    /\ rarity_scores = <<>>
    /\ feature_stats = <<>>
    /\ weirdness_data = <<>>
    /\ weirdness_df_robust = <<>>
    /\ top_10 = <<>>
    /\ bottom_10 = <<>>
    /\ feature = 0
    /\ value = NA
    /\ language_rarities = <<>>
    /\ feature_contributions = <<>>

NextRank ==
    \/ RobustFilter
    \/ Top10
    \/ Bottom10

SpecRank == InitRank /\ [][NextRank]_vars

----------------------------------------------------------------------------
(* Properties of the rarity estimator (under Spec)                         *)

Estimated == pc \in {"estimated", "aggregated", "scored", "robust", "top", "done"}
Aggregated == pc \in {"aggregated", "scored", "robust", "top", "done"}
Scored == pc \in {"scored", "robust", "top", "done"}

\* the rows of df whose cell for feature f is v
RowsWith(f, v) == {k \in 1..Len(df) : df[k][f] = v}
\* the rows of df with a non-missing cell for feature f
RowsObserved(f) == {k \in 1..Len(df) : df[k][f] # NA}
\* the features of df
Features == {feature_cols[i] : i \in 1..Len(feature_cols)}

RECURSIVE SumOver(_, _)
\* the sum of the fractions F[x] for x in S
SumOver(F, S) ==
    IF S = {} THEN Zero
    ELSE LET x == CHOOSE y \in S : TRUE
         IN FracAdd(F[x], SumOver(F, S \ {x}))

\* C2: for every feature with at least one non-missing observation the
\* rarity map exists, its keys are exactly the distinct non-missing values of
\* the column, every rarity is 1 - count(v)/total with count(v) the number of
\* rows holding v, the frequencies 1 - rarity(v) sum to 1 (the counts sum to
\* the total) and every rarity lies in [0, 1].
C2_RarityMap ==
    Estimated =>
        \A f \in Features :
            RowsObserved(f) # {} =>
                /\ f \in DOMAIN rarity_scores
                /\ LET m == rarity_scores[f]
                       total == Cardinality(RowsObserved(f))
                       freq == [v \in DOMAIN m |-> FracSub(One, m[v])]
                   IN /\ DOMAIN m = {df[k][f] : k \in RowsObserved(f)}
                      /\ \A v \in DOMAIN m :
                            /\ freq[v] = Frac(Cardinality(RowsWith(f, v)), total)
                            /\ FracLeq(Zero, m[v])
                            /\ FracLeq(m[v], One)
                      /\ SumOver(freq, DOMAIN m) = One

\* a feature observed with two values of different rarity has been estimated
C2_Witness ==
    /\ pc = "estimated"
    /\ \E f \in DOMAIN rarity_scores :
          \E v, w \in DOMAIN rarity_scores[f] :
              FracLess(rarity_scores[f][v], rarity_scores[f][w])

\* C5: a feature whose column has no non-missing value is in neither the
\* rarity table nor the feature statistics, a feature with at least one is in
\* both, no entry is empty or zero-filled, and the two key sets are equal.
C5_MissingFeatureOmitted ==
    Estimated =>
        /\ DOMAIN rarity_scores = {f \in Features : RowsObserved(f) # {}}
        /\ DOMAIN feature_stats = DOMAIN rarity_scores
        /\ \A f \in DOMAIN rarity_scores :
              /\ DOMAIN rarity_scores[f] # {}
              /\ feature_stats[f].total_responses > 0
              /\ feature_stats[f].unique_values > 0

\* the estimator has run on a frame with an all-missing and an observed column
C5_Witness ==
    /\ pc = "estimated"
    /\ \E f \in Features : RowsObserved(f) = {}
    /\ \E f \in Features : RowsObserved(f) # {} /\ f \in DOMAIN feature_stats

\* the frame of the scenario: one feature observed as A, A, A, B
ScenarioFrame == <<<<"A">>, <<"A">>, <<"A">>, <<"B">>>>

\* C9: a value that is the value of every non-missing observation of its
\* feature has rarity 0; a value observed exactly once among N has rarity
\* 1 - 1/N; with the single feature observed as A, A, A, B the rarities are
\* 1/4 for A and 3/4 for B; and with a single feature every scored language
\* has the rarity of its own value as its score, with num_features = 1.
C9_RarityValues ==
    /\ Estimated =>
          \A f \in DOMAIN rarity_scores : \A v \in DOMAIN rarity_scores[f] :
              LET N == Cardinality(RowsObserved(f))
              IN /\ RowsWith(f, v) = RowsObserved(f) => rarity_scores[f][v] = Zero
                 /\ Cardinality(RowsWith(f, v)) = 1 =>
                        rarity_scores[f][v] = Frac(N - 1, N)
    /\ Estimated /\ df = ScenarioFrame =>
          /\ rarity_scores[1]["A"] = <<1, 4>>
          /\ rarity_scores[1]["B"] = <<3, 4>>
    /\ Aggregated /\ Len(feature_cols) = 1 =>
          \A k \in 1..Len(df) :
              df[k][1] # NA =>
                  /\ weirdness_data[k].weirdness_score = rarity_scores[1][df[k][1]]
                  /\ weirdness_data[k].num_features = 1

\* the scenario frame has been scored: B's language at 3/4, the others at 1/4
C9_Witness ==
    /\ pc = "aggregated"
    /\ df = ScenarioFrame
    /\ weirdness_data[4].weirdness_score = <<3, 4>>
    /\ weirdness_data[1].weirdness_score = <<1, 4>>

\* the first row of df that holds v for feature f
FirstRow(f, v) == CHOOSE k \in RowsWith(f, v) : \A j \in RowsWith(f, v) : k <= j

\* C10: total_responses is the number of non-missing observations,
\* unique_values the number of distinct non-missing values, most_common the
\* (value, count) pair of a value of maximum count, the one first met in row
\* order among the values of that count; that value has the least rarity of
\* its feature.
C10_FeatureStats ==
    Estimated =>
        \A f \in DOMAIN feature_stats :
            LET st == feature_stats[f]
                vals == {df[k][f] : k \in RowsObserved(f)}
                mc == st.most_common
            IN /\ st.total_responses = Cardinality(RowsObserved(f))
               /\ st.unique_values = Cardinality(vals)
               /\ mc[1] \in vals
               /\ mc[2] = Cardinality(RowsWith(f, mc[1]))
               /\ \A v \in vals :
                     \/ Cardinality(RowsWith(f, v)) < mc[2]
                     \/ /\ Cardinality(RowsWith(f, v)) = mc[2]
                        /\ FirstRow(f, mc[1]) <= FirstRow(f, v)
               /\ \A v \in vals :
                     FracLeq(rarity_scores[f][mc[1]], rarity_scores[f][v])

\* two values tie for the maximum count and the one met first, B, is reported
C10_Witness ==
    /\ pc = "estimated"
    /\ \E f \in DOMAIN feature_stats :
          /\ Cardinality(RowsWith(f, "A")) = Cardinality(RowsWith(f, "B"))
          /\ Cardinality(RowsWith(f, "A")) = 2
          /\ feature_stats[f].most_common = <<"B", 2>>

----------------------------------------------------------------------------
(* Properties of the aggregator in main (under Spec)                       *)

\* the features of row k that are scored: the cell is present, the feature
\* has a rarity map and the map holds the cell's value
Scorable(k) ==
    {f \in Features : /\ df[k][f] # NA
                      /\ f \in DOMAIN rarity_scores
                      /\ df[k][f] \in DOMAIN rarity_scores[f]}

\* the rarity table's entry for the value row k holds for feature f
OwnRarity(k) == [f \in Scorable(k) |-> rarity_scores[f][df[k][f]]]

\* C1 as stated: no record returned by calculate_weirdness_scores has
\* num_features = 0 or a null weirdness_score.
C1_Original ==
    Aggregated =>
        \A i \in 1..Len(weirdness_data) :
            /\ weirdness_data[i].num_features # 0
            /\ weirdness_data[i].weirdness_score # None

\* C1 amended: calculate_weirdness_scores returns one record per language, in
\* row order, and the record of a language with zero scorable features has
\* weirdness_score None and num_features 0; the filter in main then removes
\* exactly those records, so that weirdness_df holds, in row order, the
\* languages with at least one scorable feature and none of its records has
\* num_features = 0 or a null weirdness_score.
C1_UnscoredRemovedInMain ==
    /\ Aggregated =>
          /\ Len(weirdness_data) = Len(df)
          /\ \A k \in 1..Len(df) :
                /\ weirdness_data[k].name = k
                /\ (Scorable(k) = {}) <=> (weirdness_data[k].weirdness_score = None)
                /\ (Scorable(k) = {}) <=> (weirdness_data[k].num_features = 0)
    /\ Scored =>
          /\ \A i \in 1..Len(weirdness_df) :
                /\ weirdness_df[i].num_features # 0
                /\ weirdness_df[i].weirdness_score # None
                /\ weirdness_df[i] = weirdness_data[weirdness_df[i].name]
                /\ \A j \in 1..(i - 1) : weirdness_df[j].name < weirdness_df[i].name
          /\ {weirdness_df[i].name : i \in 1..Len(weirdness_df)}
                 = {k \in 1..Len(df) : Scorable(k) # {}}

\* main has filtered a frame with a scored and an all-missing language
C1_Witness ==
    /\ pc = "scored"
    /\ \E k \in 1..Len(df) : \A f \in Features : df[k][f] = NA
    /\ Len(weirdness_df) > 0
    /\ Len(weirdness_df) < Len(weirdness_data)

\* C3: for every record of the aggregator's output num_features is the
\* number of the language's scorable features (one contribution per feature
\* whose value is present and has a rarity entry), weirdness_score is the
\* arithmetic mean of the rarity table's entries for the language's own
\* values of exactly those features, and the stored contributions are
\* contributions of those features with those rarities.
C3_ScoreIsMean ==
    Aggregated =>
        \A k \in 1..Len(df) :
            LET rec == weirdness_data[k]
                S == Scorable(k)
                top == rec.top_weird_features
            IN /\ rec.num_features = Cardinality(S)
               /\ S # {} =>
                     LET sum == SumOver(OwnRarity(k), S)
                     IN rec.weirdness_score = Frac(sum[1], sum[2] * Cardinality(S))
               /\ Len(top) = Min(Cardinality(S), TopK)
               /\ \A i \in 1..Len(top) :
                     /\ top[i].feature \in S
                     /\ top[i].value = df[k][top[i].feature]
                     /\ top[i].rarity = OwnRarity(k)[top[i].feature]
                     /\ \A j \in 1..(i - 1) : top[j].feature # top[i].feature

\* a language scored on two features of different rarity, 0 and 1/2
C3_Witness ==
    /\ pc = "aggregated"
    /\ \E k \in 1..Len(df) :
          /\ weirdness_data[k].num_features = 2
          /\ weirdness_data[k].weirdness_score = <<1, 4>>
          /\ weirdness_data[k].top_weird_features[1].rarity = <<1, 2>>
          /\ weirdness_data[k].top_weird_features[2].rarity = Zero

----------------------------------------------------------------------------
(* Properties of the aggregator on an arbitrary rarity table (under        *)
(* SpecAgg)                                                                *)

\* the position of contribution x in the list all
PositionIn(all, x) == CHOOSE a \in 1..Len(all) : all[a] = x

\* C4: when the record is made, top_weird_features is ordered by rarity
\* descending, contributions of equal rarity keep the order in which the
\* loop collected them, its length is min(num_features, 5), it holds
\* collected contributions only, and every collected contribution left out
\* ranks after each one kept (a lower rarity, or the same rarity and a later
\* place in the iteration).
C4_TopWeirdFeatures ==
    [][pc = "loop" /\ pc' = "returned" =>
        LET all == feature_contributions
            rec == weirdness_data'[1]
            top == rec.top_weird_features
            Kept == {top[i] : i \in 1..Len(top)}
        IN /\ rec.num_features = Len(all)
           /\ Len(top) = Min(rec.num_features, TopK)
           /\ \A i \in 1..Len(top) : \E a \in 1..Len(all) : all[a] = top[i]
           /\ \A i, j \in 1..Len(top) :
                 i < j =>
                    /\ FracLeq(top[j].rarity, top[i].rarity)
                    /\ top[j].rarity = top[i].rarity =>
                          PositionIn(all, top[i]) < PositionIn(all, top[j])
           /\ \A a \in 1..Len(all) :
                 all[a] \notin Kept =>
                    \A i \in 1..Len(top) :
                        \/ FracLess(all[a].rarity, top[i].rarity)
                        \/ /\ all[a].rarity = top[i].rarity
                           /\ PositionIn(all, top[i]) < a]_vars

\* a language with six contributions of two rarities, the sixth tying with
\* the fifth at the cut-off
C4_Witness ==
    /\ pc = "returned"
    /\ weirdness_data[1].num_features = 6
    /\ Len(weirdness_data[1].top_weird_features) = TopK
    /\ weirdness_data[1].top_weird_features[1].rarity = <<4, 5>>
    /\ weirdness_data[1].top_weird_features[TopK].rarity = <<1, 5>>
    /\ feature_contributions[6].rarity = <<1, 5>>

\* C6: an iteration of the loop whose cell is missing, or whose feature has
\* no entry in the rarity table, or whose value has no entry in the feature's
\* rarity map, leaves the collected rarities and contributions as they
\* were; any other iteration appends the table's rarity for the value and
\* its contribution record and leaves the earlier ones in place; and no
\* iteration ends in an error.
C6_SkipTolerated ==
    [][pc = "loop" /\ feature' = feature + 1 =>
        LET f == feature_cols[feature']
            skip == \/ value' = NA
                    \/ f \notin DOMAIN rarity_scores'
                    \/ value' \notin DOMAIN rarity_scores'[f]
        IN /\ pc' # "error"
           /\ skip => /\ language_rarities' = language_rarities
                       /\ feature_contributions' = feature_contributions
           /\ ~skip =>
                 /\ language_rarities' =
                        Append(language_rarities, rarity_scores'[f][value'])
                 /\ feature_contributions' =
                        Append(feature_contributions,
                               [feature |-> f, value |-> value',
                                rarity |-> rarity_scores'[f][value']])]_vars

\* after a contribution was collected, a present value that its feature's
\* rarity map does not hold has been skipped
C6_Witness ==
    /\ pc = "loop"
    /\ feature >= 2
    /\ value # NA
    /\ feature_cols[feature] \in DOMAIN rarity_scores
    /\ DOMAIN rarity_scores[feature_cols[feature]] # {}
    /\ value \notin DOMAIN rarity_scores[feature_cols[feature]]
    /\ Len(feature_contributions) = feature - 1

----------------------------------------------------------------------------
(* Properties of the ranking in main (under SpecRank)                      *)

Filtered == pc \in {"robust", "top", "done"}

\* the records of a frame, as a set
RecordsOf(frame) == {frame[i] : i \in 1..Len(frame)}

\* the thresholds the robust subset is compared at
Thresholds == (MIN_FEATURES - 1)..(MIN_FEATURES + 1)

Before(x, y, descending) == IF descending THEN FracLess(y, x) ELSE FracLess(x, y)

\* ranked is the first min(n, size) records of the robust subset by score,
\* descending or ascending, equal scores in input order
IsRanking(ranked, n, descending) ==
    /\ Len(ranked) = Min(n, Len(weirdness_df_robust))
    /\ \A i \in 1..Len(ranked) :
          /\ ranked[i] \in RecordsOf(weirdness_df_robust)
          /\ ranked[i].num_features >= MIN_FEATURES
    /\ \A i, j \in 1..Len(ranked) :
          i < j =>
             \/ Before(ranked[i].weirdness_score, ranked[j].weirdness_score,
                       descending)
             \/ /\ ranked[i].weirdness_score = ranked[j].weirdness_score
                /\ ranked[i].name < ranked[j].name
    /\ \A r \in RecordsOf(weirdness_df_robust) \ RecordsOf(ranked) :
          \A i \in 1..Len(ranked) :
             \/ Before(ranked[i].weirdness_score, r.weirdness_score, descending)
             \/ /\ ranked[i].weirdness_score = r.weirdness_score
                /\ ranked[i].name < r.name

====
